---- MODULE Spec2Model ----
(***************************************************************************)
(* A model of the scryfall command-line client (scryfall/cli.py and        *)
(* scryfall/api.py).                                                        *)
(*                                                                         *)
(* Strings are sequences of one-character strings, so that slugify, the    *)
(* f-string formatting of paths and lines, and '\n'.join are computed      *)
(* character by character.  The remote server and the file system are the  *)
(* environment: every HTTP request is answered by a nondeterministic       *)
(* choice among the answers a server can give.  `log' holds the records    *)
(* logged at level info and above (the default verbosity).                 *)
(***************************************************************************)
EXTENDS Naturals, Integers, Sequences, FiniteSets, TLC

VARIABLES
    pc,          \* position of the run
    args,        \* the argparse namespace
    stdin,       \* lines of standard input
    outputKind,  \* what args.output names: "missing", "dir" or "file"
    files,       \* regular files below args.output: path -> content
    requests,    \* HTTP requests issued, in order
    fsops,       \* file-system mutations performed, in order
    log,         \* records logged at info level and above
    stdout,      \* what was printed
    called,      \* the mode functions default_func has called
    card_names,  \* list_card_names: the names to resolve
    lookups,     \* list_card_names: the answer the server gave for each name
    cards,       \* list_card_names: the Card records
    idx,         \* list_card_names: index of the next name
    cidx,        \* download_cards: index of the current card
    face,        \* download_card: the face being downloaded
    result,      \* download_card: the image response, NoResult when none
    chunk,       \* download_card: chunks written so far
    error,       \* the exception that ended the run, if any
    response,    \* list_cards: the search response payload
    sIn,         \* slugify: the argument
    sOut         \* slugify: the value returned

vars == <<pc, args, stdin, outputKind, files, requests, fsops, log, stdout,
          called, card_names, lookups, cards, idx, cidx, face, result, chunk,
          error, response, sIn, sOut>>

-----------------------------------------------------------------------------
(* Bounds of the model.                                                    *)

MaxCards == 2

MaxLines == 1

NumChunks == 1

MaxLen == 2

MaxResults == 2

-----------------------------------------------------------------------------
(* Strings.                                                                *)

\* Card names given on the command line: two of them differ only in a
\* character the sanitizer replaces, so their file names coincide.
CardNames == { <<"a">>, <<"b", ":">>, <<"b", "_">> }

\* args.output (default os.getcwd()): a non-empty path.
OutputPath == <<"o">>

PngSuffix == <<".", "p", "n", "g">>

BackSuffix == <<"_", "b", "a", "c", "k", ".", "p", "n", "g">>

NoError == [type |-> "none", where |-> "none"]

\* ' '.join(xs) and '\n'.join(xs): the elements separated by sep.
RECURSIVE Join(_, _)
Join(sep, xs) ==
    IF xs = <<>> THEN <<>>
    ELSE IF Len(xs) = 1 THEN xs[1]
    ELSE xs[1] \o <<sep>> \o Join(sep, Tail(xs))

Whitespace == {" ", "\n", "\t"}

\* str.strip(): leading and trailing whitespace removed.
RECURSIVE LStrip(_)
LStrip(s) ==
    IF s # <<>> /\ s[1] \in Whitespace THEN LStrip(Tail(s)) ELSE s

RECURSIVE RStrip(_)
RStrip(s) ==
    IF s # <<>> /\ s[Len(s)] \in Whitespace
    THEN RStrip(SubSeq(s, 1, Len(s) - 1)) ELSE s

Strip(s) == RStrip(LStrip(s))

\* The character class of the pattern r'[/\\<>|"\*\?:]'.
SlugPattern == {"/", "\\", "<", ">", "|", "\"", "*", "?", ":"}

\* The same class with the colon forgotten.
SlugPatternNoColon == SlugPattern \ {":"}

RECURSIVE Sub(_, _, _)
\* re.sub(class, repl, s): every character of the class replaced by repl.
Sub(class, repl, s) ==
    IF s = <<>> THEN <<>>
    ELSE <<IF s[1] \in class THEN repl ELSE s[1]>> \o Sub(class, repl, Tail(s))

slugify_NoColon(card_name) == Sub(SlugPatternNoColon, "_", card_name)

slugify(card_name) == Sub(SlugPattern, "_", card_name)

-----------------------------------------------------------------------------
(* The API client (api.py) and the server's answers.                       *)

\* Response.raise_for_status(): raises HTTPError for 4xx and 5xx.
RaisesForStatus(status) == status >= 400 /\ status < 600

\* Response.__bool__ is Response.ok: no HTTPError would be raised.
Truthy(status) == ~RaisesForStatus(status)

\* The request _endpoint_get issues for cards_named and cards_image.
NamedRequest(card_name) ==
    [endpoint |-> "cards/named", arg |-> card_name, face |-> "none"]

ImageRequest(uuid, f) ==
    [endpoint |-> "cards/{uuid}", arg |-> uuid, face |-> f]

\* The id the server assigns to the card called n.
UuidOf(n) == <<"#">> \o n

FaceLists == { <<"f">>, <<"f", "b">> }

\* The JSON bodies a server may send for an exact lookup of n: card_faces is
\* optional.
CardJson(n) ==
    { [keys |-> {"id", "name", "set", "set_name", "collector_number"},
       id |-> UuidOf(n), name |-> n, set |-> <<"S">>, set_name |-> <<"N">>,
       collector_number |-> <<"1">>, card_faces |-> <<>>] }
    \cup
    { [keys |-> {"id", "name", "set", "set_name", "collector_number",
                 "card_faces"},
       id |-> UuidOf(n), name |-> n, set |-> <<"S">>, set_name |-> <<"N">>,
       collector_number |-> <<"1">>, card_faces |-> fl] : fl \in FaceLists }

NoJson == [keys |-> {}, id |-> <<>>, name |-> <<>>, set |-> <<>>,
           set_name |-> <<>>, collector_number |-> <<>>, card_faces |-> <<>>]

\* What the server may answer to an exact lookup of n.
LookupAnswers(n) ==
    { [status |-> 200, json |-> j] : j \in CardJson(n) }
    \cup { [status |-> 404, json |-> NoJson] }

\* The bytes of an image, as its sequence of chunks.
ImageChunk(uuid, f, k) == [uuid |-> uuid, face |-> f, k |-> k]

NoResult == [status |-> 0, uuid |-> <<>>, face |-> "none"]

-----------------------------------------------------------------------------
(* cli.py                                                                  *)

Raise(type, where) ==
    /\ pc' = "crashed"
    /\ error' = [type |-> type, where |-> where]

LogRecord(level, msg, arg) == [level |-> level, msg |-> msg, arg |-> arg]

\* lines 174-176
IsDoubleFaced_AnyFaces(json) == "card_faces" \in json.keys

IsDoubleFaced(json) ==
    IF "card_faces" \in json.keys THEN Len(json.card_faces) > 1 ELSE FALSE

\* lines 177-182
Card(json) ==
    [uuid |-> json.id, name |-> json.name, set_name |-> json.set_name,
     collector_number |-> json.collector_number, block |-> json.set,
     is_double_faced |-> IsDoubleFaced(json)]

\* line 209
path_prefix == IF args.output # <<>> THEN args.output \o <<"/">> ELSE <<>>

\* lines 214 and 216: the file name of a face of a card
Filename(card, f) ==
    path_prefix \o slugify(card.name)
        \o (IF f = "back" THEN BackSuffix ELSE PngSuffix)

-----------------------------------------------------------------------------
(* The states a run starts from.                                           *)

RECURSIVE SeqsUpTo(_, _)
\* The sequences over S of length at most n.
SeqsUpTo(S, n) ==
    IF n = 0 THEN { <<>> }
    ELSE LET shorter == SeqsUpTo(S, n - 1)
         IN  shorter \cup { Append(q, x) : q \in shorter, x \in S }

\* Lines as sys.stdin yields them: with their newline, and maybe blanks.
StdinLines == { <<"a", "\n">>, <<" ", "b", ":", "\n">> }

Namespace(l, d, r, c, j, wb, wc, ws) ==
    [list |-> l, download |-> d, dryrun |-> r, cards |-> c,
     output |-> OutputPath, json |-> j,
     with_block |-> wb, with_cn |-> wc, with_set |-> ws]

NoFiles == [p \in {} |-> <<>>]

\* A file left by an earlier run, at the path the card "b_" is saved to.
PriorChunk == [uuid |-> <<>>, face |-> "prior", k |-> 0]

PriorPath == OutputPath \o <<"/">> \o <<"b", "_">> \o PngSuffix

PriorFiles == PriorPath :> <<PriorChunk>>

Idle ==
    /\ requests = <<>>
    /\ fsops = <<>>
    /\ log = <<>>
    /\ stdout = <<>>
    /\ card_names = <<>>
    /\ lookups = <<>>
    /\ cards = <<>>
    /\ idx = 1
    /\ cidx = 1
    /\ face = "front"
    /\ result = NoResult
    /\ chunk = 0
    /\ error = NoError

\* The state after App() and the command line are given: any combination of
\* -l, -d and --dryrun, any names, any state of the output path.  The
\* rendering flags are read only after a search response (see InitRender).
\* Standard input is read only in download mode without positional names.
Init ==
    /\ pc = "parse_args"
    /\ args \in { Namespace(l, d, r, c, FALSE, FALSE, FALSE, FALSE) :
                    l \in BOOLEAN, d \in BOOLEAN, r \in BOOLEAN,
                    c \in SeqsUpTo(CardNames, MaxCards) }
    /\ stdin \in IF args.download /\ ~args.list /\ args.cards = <<>>
                 THEN SeqsUpTo(StdinLines, MaxLines) ELSE { <<>> }
    /\ outputKind \in {"missing", "dir", "file"}
    /\ files \in IF outputKind = "dir" THEN {NoFiles, PriorFiles} ELSE {NoFiles}
    /\ Idle
    /\ called = <<>>
    /\ response = <<>>
    /\ sIn = <<>>
    /\ sOut = <<>>

-----------------------------------------------------------------------------
(* App: lines 94-96 and 104-118.                                           *)

\* parse_args: -l and -d form a mutually exclusive group, so argparse ends
\* the run with a usage error when both are given.
ParseArgs ==
    /\ pc = "parse_args"
    /\ IF args.list /\ args.download
       THEN Raise("SystemExit", "parse_args")
       ELSE pc' = "default_func" /\ UNCHANGED error
    /\ UNCHANGED <<args, stdin, outputKind, files, requests, fsops, log,
                   stdout, called, card_names, lookups, cards, idx, cidx,
                   face, result, chunk, response, sIn, sOut>>

\* default_func, lines 104-108: neither flag set calls nothing.
default_func ==
    /\ pc = "default_func"
    /\ IF args.list
       THEN pc' = "list_cards" /\ called' = Append(called, "list_cards")
       ELSE IF args.download
       THEN pc' = "download_cards" /\ called' = Append(called, "download_cards")
       ELSE pc' = "done" /\ UNCHANGED called
    /\ UNCHANGED <<args, stdin, outputKind, files, requests, fsops, log,
                   stdout, card_names, lookups, cards, idx, cidx, face,
                   result, chunk, error, response, sIn, sOut>>

-----------------------------------------------------------------------------
(* list_cards: lines 121-146.                                              *)

\* line 123
Query == IF args.cards # <<>> THEN Join(" ", args.cards) ELSE <<>>

\* As list_cards would be without the test of the query.
list_cards_Unguarded ==
    /\ pc = "list_cards"
    /\ Raise("AttributeError", "cards_search")
    /\ UNCHANGED <<args, stdin, outputKind, files, requests, fsops, log,
                   stdout, called, card_names, lookups, cards, idx, cidx,
                   face, result, chunk, response, sIn, sOut>>

\* Lines 121-125 and 145-146.  With a query, line 125 evaluates
\* api.cards_search: class Scryfall (api.py, lines 4-20) defines cards_named,
\* cards_image and _endpoint_get only, so the attribute lookup raises
\* AttributeError before any request is made and lines 126-144 are not run.
list_cards ==
    /\ pc = "list_cards"
    /\ IF Query # <<>>
       THEN /\ Raise("AttributeError", "cards_search")
            /\ UNCHANGED log
       ELSE /\ log' = Append(log, LogRecord("error", "No query provided", <<>>))
            /\ pc' = "done"
            /\ UNCHANGED error
    /\ UNCHANGED <<args, stdin, outputKind, files, requests, fsops,
                   stdout, called, card_names, lookups, cards, idx, cidx,
                   face, result, chunk, response, sIn, sOut>>

\* The card objects of a search response.
ResultCards ==
    { [name |-> <<"B">>, set |-> <<"L">>, collector_number |-> <<"1">>,
       set_name |-> <<"A">>],
      [name |-> <<"C">>, set |-> <<"Z">>, collector_number |-> <<"2">>,
       set_name |-> <<"R">>] }

\* lines 132, 134, 136, 138: the f-string of one result
LineAll(card) ==
    card.name \o <<" ", "(">> \o card.set \o <<")", " ">>
        \o card.collector_number \o <<" ">> \o card.set_name

LineBlockCn(card) ==
    card.name \o <<" ", "(">> \o card.set \o <<")", " ">>
        \o card.collector_number

LineBlock(card) == card.name \o <<" ", "(">> \o card.set \o <<")">>

LineName(card) == card.name

\* The f-string of the branch taken.
FormatLine(branch, card) ==
    IF branch = "all" THEN LineAll(card)
    ELSE IF branch = "block_cn" THEN LineBlockCn(card)
    ELSE IF branch = "block" THEN LineBlock(card)
    ELSE LineName(card)

\* [f"..." for card in response['data']]
RECURSIVE MapLines(_, _)
MapLines(branch, data) ==
    IF data = <<>> THEN <<>>
    ELSE <<FormatLine(branch, data[1])>> \o MapLines(branch, Tail(data))

\* json.dumps(response, indent=2): the payload, serialized.
JsonDumps(data) == <<[json |-> data, indent |-> 2]>>

\* lines 129-138: the text list_cards renders for a response
Render(a, data) ==
    IF a.json THEN JsonDumps(data)
    ELSE IF a.with_block /\ a.with_cn /\ a.with_set
    THEN Join("\n", MapLines("all", data))
    ELSE IF a.with_block /\ a.with_cn
    THEN Join("\n", MapLines("block_cn", data))
    ELSE IF a.with_block
    THEN Join("\n", MapLines("block", data))
    ELSE Join("\n", MapLines("name", data))

\* Lines 126-144, from a successful search response: the count is logged,
\* the text rendered, and written to args.output unless that is a
\* directory, else printed.
RenderResults ==
    /\ pc = "render"
    /\ LET output == Render(args, response)
           found  == LogRecord("info", "Found cards", <<Len(response)>>)
       IN  IF args.output # <<>> /\ outputKind # "dir"
           THEN /\ files' = (args.output :> output) @@ files
                /\ outputKind' = "file"
                /\ fsops' = Append(fsops,
                       [op |-> "open", path |-> args.output, data |-> <<>>])
                /\ log' = log \o <<found,
                       LogRecord("info", "Results saved", args.output)>>
                /\ UNCHANGED stdout
           ELSE /\ stdout' = Append(stdout, output)
                /\ log' = Append(log, found)
                /\ UNCHANGED <<files, outputKind, fsops>>
    /\ pc' = "done"
    /\ UNCHANGED <<args, stdin, requests, called, card_names, lookups, cards,
                   idx, cidx, face, result, chunk, error, response, sIn,
                   sOut>>

\* list_cards at line 126, holding a successful search response.
InitRender ==
    /\ pc = "render"
    /\ args \in { Namespace(TRUE, FALSE, FALSE, <<n>>, j, wb, wc, ws) :
                    n \in CardNames, j \in BOOLEAN, wb \in BOOLEAN,
                    wc \in BOOLEAN, ws \in BOOLEAN }
    /\ response \in SeqsUpTo(ResultCards, MaxResults)
    /\ stdin = <<>>
    /\ outputKind \in {"missing", "dir", "file"}
    /\ files = NoFiles
    /\ Idle
    /\ called = <<"list_cards">>
    /\ sIn = <<>>
    /\ sOut = <<>>

SpecRender == InitRender /\ [][RenderResults]_vars

-----------------------------------------------------------------------------
(* download_cards and list_card_names: lines 159-216.                      *)

\* [line.strip() for line in sys.stdin]
RECURSIVE StripAll(_)
StripAll(lines) ==
    IF lines = <<>> THEN <<>>
    ELSE <<Strip(lines[1])>> \o StripAll(Tail(lines))

\* Lines 206-209: the output directory is created when nothing exists at
\* args.output, whatever args.dryrun says.
download_cards ==
    /\ pc = "download_cards"
    /\ IF outputKind = "missing"
       THEN /\ outputKind' = "dir"
            /\ fsops' = Append(fsops,
                   [op |-> "makedirs", path |-> args.output, data |-> <<>>])
       ELSE UNCHANGED <<outputKind, fsops>>
    /\ pc' = "list_card_names"
    /\ UNCHANGED <<args, stdin, files, requests, log, stdout, called,
                   card_names, lookups, cards, idx, cidx, face, result,
                   chunk, error, response, sIn, sOut>>

\* Lines 160-169: the positional names, else (no --input is given in the
\* runs modelled) the stripped lines of standard input.
ReadNames ==
    /\ pc = "list_card_names"
    /\ card_names' = IF args.cards # <<>> THEN args.cards ELSE StripAll(stdin)
    /\ cards' = <<>>
    /\ idx' = 1
    /\ pc' = "resolve"
    /\ UNCHANGED <<args, stdin, outputKind, files, requests, fsops, log,
                   stdout, called, lookups, cidx, face, result, chunk, error,
                   response, sIn, sOut>>

\* One iteration of the loop of lines 170-187, with cards_named and
\* _endpoint_get (api.py lines 8-9 and 14-20): the request is issued,
\* raise_for_status raises HTTPError for an error status, and only a
\* response that did not raise reaches the test of line 172.
LookupCard ==
    /\ pc = "resolve"
    /\ idx <= Len(card_names)
    /\ \E answer \in LookupAnswers(card_names[idx]) :
        /\ requests' = Append(requests, NamedRequest(card_names[idx]))
        /\ lookups' = Append(lookups, answer)
        /\ IF RaisesForStatus(answer.status)
           THEN /\ Raise("HTTPError", "cards_named")
                /\ UNCHANGED <<cards, log, idx>>
           ELSE /\ IF Truthy(answer.status)
                   THEN /\ cards' = Append(cards, Card(answer.json))
                        /\ UNCHANGED log
                   ELSE /\ log' = Append(log, LogRecord("error",
                               "Card not found", card_names[idx]))
                        /\ UNCHANGED cards
                /\ idx' = idx + 1
                /\ UNCHANGED <<pc, error>>
    /\ UNCHANGED <<args, stdin, outputKind, files, fsops, stdout, called,
                   card_names, cidx, face, result, chunk, response, sIn,
                   sOut>>

\* Lines 188-189: the count is logged and the cards returned to the loop of
\* line 210.
ReturnCards ==
    /\ pc = "resolve"
    /\ idx > Len(card_names)
    /\ log' = Append(log, LogRecord("info", "Found cards", <<Len(cards)>>))
    /\ cidx' = 1
    /\ pc' = "for_card"
    /\ UNCHANGED <<args, stdin, outputKind, files, requests, fsops, stdout,
                   called, card_names, lookups, cards, idx, face, result,
                   chunk, error, response, sIn, sOut>>

\* Lines 210-214: the next card; in a dry run a notice is printed instead of
\* the download.
ForCard ==
    /\ pc = "for_card"
    /\ IF cidx > Len(cards)
       THEN /\ pc' = "done"
            /\ UNCHANGED <<stdout, cidx, face>>
       ELSE IF args.dryrun
       THEN /\ stdout' = Append(stdout,
                   [dryrun |-> "Downloading", name |-> cards[cidx].name])
            /\ cidx' = cidx + 1
            /\ UNCHANGED <<pc, face>>
       ELSE /\ pc' = "cards_image"
            /\ face' = "front"
            /\ UNCHANGED <<stdout, cidx>>
    /\ UNCHANGED <<args, stdin, outputKind, files, requests, fsops, log,
                   called, card_names, lookups, cards, idx, result, chunk,
                   error, response, sIn, sOut>>

-----------------------------------------------------------------------------
(* download_card: lines 197-202.                                           *)

\* The statuses a server may answer an image request with.
ImageStatuses == {200, 404}

\* As line 198 would be after line 199: the file is opened, and so created
\* or truncated, before the image is requested.
FetchImage_OpenFirst ==
    /\ pc = "cards_image"
    /\ LET card == cards[cidx] IN
       \E status \in ImageStatuses :
        /\ requests' = Append(requests, ImageRequest(card.uuid, face))
        /\ IF outputKind = "dir"
           THEN /\ files' = (Filename(card, face) :> <<>>) @@ files
                /\ fsops' = Append(fsops, [op |-> "open",
                       path |-> Filename(card, face), data |-> <<>>])
           ELSE UNCHANGED <<files, fsops>>
        /\ IF RaisesForStatus(status)
           THEN /\ Raise("HTTPError", "cards_image")
                /\ UNCHANGED result
           ELSE /\ result' = [status |-> status, uuid |-> card.uuid,
                              face |-> face]
                /\ pc' = "open"
                /\ UNCHANGED error
    /\ UNCHANGED <<args, stdin, outputKind, log, stdout, called, card_names,
                   lookups, cards, idx, cidx, face, chunk, response, sIn,
                   sOut>>

\* Line 198, with cards_image and _endpoint_get (api.py lines 11-20): the
\* request is issued and raise_for_status raises HTTPError for an error
\* status, which nothing in download_card or download_cards catches.
FetchImage ==
    /\ pc = "cards_image"
    /\ LET card == cards[cidx] IN
       \E status \in ImageStatuses :
        /\ requests' = Append(requests, ImageRequest(card.uuid, face))
        /\ IF RaisesForStatus(status)
           THEN /\ Raise("HTTPError", "cards_image")
                /\ UNCHANGED result
           ELSE /\ result' = [status |-> status, uuid |-> card.uuid,
                              face |-> face]
                /\ pc' = "open"
                /\ UNCHANGED error
    /\ UNCHANGED <<args, stdin, outputKind, files, fsops, log, stdout, called,
                   card_names, lookups, cards, idx, cidx, face, chunk,
                   response, sIn, sOut>>

\* Lines 199-200: open(filename, 'wb') creates or truncates the file; it
\* raises when args.output is a regular file.  Then the name is logged.
OpenFile ==
    /\ pc = "open"
    /\ LET filename == Filename(cards[cidx], face) IN
       IF outputKind = "dir"
       THEN /\ files' = (filename :> <<>>) @@ files
            /\ fsops' = Append(fsops,
                   [op |-> "open", path |-> filename, data |-> <<>>])
            /\ log' = Append(log, LogRecord("info", "Saving", filename))
            /\ chunk' = 0
            /\ pc' = "write"
            /\ UNCHANGED error
       ELSE /\ Raise("NotADirectoryError", "open")
            /\ UNCHANGED <<files, fsops, log, chunk>>
    /\ UNCHANGED <<args, stdin, outputKind, requests, stdout, called,
                   card_names, lookups, cards, idx, cidx, face, result,
                   response, sIn, sOut>>

\* Lines 201-202, one chunk: it is written, or the stream breaks and
\* iter_content raises, leaving the file as written so far.
WriteChunk ==
    /\ pc = "write"
    /\ chunk < NumChunks
    /\ LET filename == Filename(cards[cidx], face)
           data     == ImageChunk(result.uuid, result.face, chunk + 1)
       IN  \/ /\ files' = [files EXCEPT ![filename] = Append(@, data)]
              /\ fsops' = Append(fsops,
                     [op |-> "write", path |-> filename, data |-> <<data>>])
              /\ chunk' = chunk + 1
              /\ UNCHANGED <<pc, error>>
           \/ /\ Raise("ConnectionError", "iter_content")
              /\ UNCHANGED <<files, fsops, chunk>>
    /\ UNCHANGED <<args, stdin, outputKind, requests, log, stdout, called,
                   card_names, lookups, cards, idx, cidx, face, result,
                   response, sIn, sOut>>

\* The end of download_card, and lines 215-216: the file is closed; the back
\* face of a double-faced card follows its front face, else the next card.
CloseFile ==
    /\ pc = "write"
    /\ chunk = NumChunks
    /\ result' = NoResult
    /\ IF face = "front" /\ cards[cidx].is_double_faced
       THEN /\ face' = "back"
            /\ pc' = "cards_image"
            /\ UNCHANGED cidx
       ELSE /\ face' = "front"
            /\ cidx' = cidx + 1
            /\ pc' = "for_card"
    /\ UNCHANGED <<args, stdin, outputKind, files, requests, fsops, log,
                   stdout, called, card_names, lookups, cards, idx, chunk,
                   error, response, sIn, sOut>>

-----------------------------------------------------------------------------

Next ==
    \/ ParseArgs
    \/ default_func
    \/ list_cards
    \/ download_cards
    \/ ReadNames
    \/ LookupCard
    \/ ReturnCards
    \/ ForCard
    \/ FetchImage
    \/ OpenFile
    \/ WriteChunk
    \/ CloseFile

Spec == Init /\ [][Next]_vars

-----------------------------------------------------------------------------
(* slugify on its own: lines 192-194.                                      *)

\* The characters of the strings slugify is applied to.
Alphabet == SlugPattern \cup {"a", "_", " "}

InitSlug ==
    /\ pc = "slugify"
    /\ sIn \in SeqsUpTo(Alphabet, MaxLen)
    /\ sOut = <<>>
    /\ args = Namespace(FALSE, FALSE, FALSE, <<>>, FALSE, FALSE, FALSE, FALSE)
    /\ stdin = <<>>
    /\ outputKind = "dir"
    /\ files = NoFiles
    /\ Idle
    /\ called = <<>>
    /\ response = <<>>

Slugify ==
    /\ pc = "slugify"
    /\ sOut' = slugify(sIn)
    /\ pc' = "slugified"
    /\ UNCHANGED <<args, stdin, outputKind, files, requests, fsops, log,
                   stdout, called, card_names, lookups, cards, idx, cidx,
                   face, result, chunk, error, response, sIn>>

SpecSlug == InitSlug /\ [][Slugify]_vars

-----------------------------------------------------------------------------
(* Properties.                                                              *)

Terminated == pc \in {"done", "crashed"}

DownloadMode == args.download /\ ~args.list

ListMode == args.list /\ ~args.download

IsImageRequest(r) == r.endpoint = "cards/{uuid}"

IsSearchRequest(r) == r.endpoint = "cards/search"

IsFileOp(o) == o.op \in {"open", "write"}

IsNotFound(r) == r.msg = "Card not found"

\* A lookup that failed: an error status.
LookupFailed(answer) == answer.status < 200 \/ answer.status >= 300

RECURSIVE ResolvedNames(_)
\* The names the server returned for the lookups that succeeded, in order.
ResolvedNames(answers) ==
    IF answers = <<>> THEN <<>>
    ELSE (IF LookupFailed(answers[1]) THEN <<>> ELSE <<answers[1].json.name>>)
         \o ResolvedNames(Tail(answers))

RECURSIVE FailedNames(_, _)
\* The names whose lookup failed, in order.
FailedNames(names, answers) ==
    IF answers = <<>> THEN <<>>
    ELSE (IF LookupFailed(answers[1]) THEN <<names[1]>> ELSE <<>>)
         \o FailedNames(Tail(names), Tail(answers))

NamesOf(cs) == [i \in 1..Len(cs) |-> cs[i].name]

ArgsOf(records) == [i \in 1..Len(records) |-> records[i].arg]

\* C1: a failing exact lookup does not abort list_card_names: one error is
\* logged per failing name, and the cards are those of the names resolved so
\* far, in input order.
C1_FailedLookupIsSkipped ==
    /\ error.where # "cards_named"
    /\ ArgsOf(SelectSeq(log, IsNotFound)) = FailedNames(card_names, lookups)
    /\ NamesOf(cards) = ResolvedNames(lookups)

RECURSIVE Notices(_)
Notices(cs) ==
    IF cs = <<>> THEN <<>>
    ELSE <<[dryrun |-> "Downloading", name |-> cs[1].name]>>
         \o Notices(Tail(cs))

\* C2: in download mode with dry-run set, nothing is written to the file
\* system and no image is requested; a finished run has printed one notice
\* per resolved card.
C2_DryrunTouchesNothing ==
    (DownloadMode /\ args.dryrun) =>
        /\ fsops = <<>>
        /\ SelectSeq(requests, IsImageRequest) = <<>>
        /\ (pc = "done" => stdout = Notices(cards))

\* The nine characters the sanitizer is to replace.
ClaimChars == {"/", "\\", "<", ">", "|", "\"", "*", "?", ":"}

ClaimSlug(s) == [i \in 1..Len(s) |-> IF s[i] \in ClaimChars THEN "_" ELSE s[i]]

\* More than one face entry in the lookup response.
ClaimDoubleFaced(json) ==
    "card_faces" \in json.keys /\ Len(json.card_faces) >= 2

\* The file operations of one download: the file opened, then its chunks.
FaceOps(path, uuid, f) ==
    <<[op |-> "open", path |-> path, data |-> <<>>]>>
    \o [k \in 1..NumChunks |->
          [op |-> "write", path |-> path,
           data |-> <<[uuid |-> uuid, face |-> f, k |-> k]>>]]

RECURSIVE ExpectedOps(_)
ExpectedOps(answers) ==
    IF answers = <<>> THEN <<>>
    ELSE LET json == answers[1].json
             base == OutputPath \o <<"/">> \o ClaimSlug(json.name)
         IN  FaceOps(base \o PngSuffix, json.id, "front")
             \o (IF ClaimDoubleFaced(json)
                 THEN FaceOps(base \o BackSuffix, json.id, "back")
                 ELSE <<>>)
             \o ExpectedOps(Tail(answers))

RECURSIVE ExpectedFetches(_)
ExpectedFetches(answers) ==
    IF answers = <<>> THEN <<>>
    ELSE LET json == answers[1].json
         IN  <<ImageRequest(json.id, "front")>>
             \o (IF ClaimDoubleFaced(json)
                 THEN <<ImageRequest(json.id, "back")>> ELSE <<>>)
             \o ExpectedFetches(Tail(answers))

\* C3: a download run that ends without an error has, for each resolved
\* card in order, fetched the front face and written it to
\* {output}/{slug}.png, and then, for a double-faced card only, fetched the
\* back face and written it to {output}/{slug}_back.png; nothing else is
\* fetched or written.
C3_FilesPerCard ==
    (DownloadMode /\ ~args.dryrun /\ pc = "done") =>
        /\ SelectSeq(fsops, IsFileOp) = ExpectedOps(lookups)
        /\ SelectSeq(requests, IsImageRequest) = ExpectedFetches(lookups)

C3_Witness ==
    /\ DownloadMode /\ ~args.dryrun /\ pc = "done"
    /\ \E i \in 1..Len(cards) : cards[i].is_double_faced
    /\ \E i \in 1..Len(cards) : ~cards[i].is_double_faced
    /\ \E i \in 1..Len(fsops) : fsops[i].op = "write"

\* C4: a run with neither -l nor -d executes list_cards, and no run
\* executes both list_cards and download_cards.
C4_DefaultIsListMode ==
    /\ (pc \in {"done", "crashed"} /\ ~args.list /\ ~args.download)
           => called = <<"list_cards">>
    /\ ~(\E i, j \in 1..Len(called) :
             called[i] = "list_cards" /\ called[j] = "download_cards")

\* C5: a list-mode run with a non-empty query issues exactly one search
\* request, and does not end in an error before a result is seen.
C5_OneSearchRequest ==
    (ListMode /\ Query # <<>> /\ Terminated) =>
        /\ Len(SelectSeq(requests, IsSearchRequest)) = 1
        /\ error.type # "AttributeError"

\* C6: a list-mode run with no positional names issues no request and writes
\* nothing to standard output or to the file system, and ends having logged
\* the error.
C6_EmptyQueryIsRejected ==
    (ListMode /\ args.cards = <<>>) =>
        /\ requests = <<>>
        /\ stdout = <<>>
        /\ fsops = <<>>
        /\ (Terminated =>
               /\ error = NoError
               /\ log = <<LogRecord("error", "No query provided", <<>>)>>)

C6_Witness ==
    /\ ListMode /\ args.cards = <<>> /\ pc = "done"
    /\ log = <<LogRecord("error", "No query provided", <<>>)>>
    /\ called = <<"list_cards">>

\* The line of one result: the name, then each field whose flag is set.
ClaimLine(a, card) ==
    card.name
    \o (IF a.with_block THEN <<" ", "(">> \o card.set \o <<")">> ELSE <<>>)
    \o (IF a.with_cn THEN <<" ">> \o card.collector_number ELSE <<>>)
    \o (IF a.with_set THEN <<" ">> \o card.set_name ELSE <<>>)

ClaimText(a, data) == Join("\n", [i \in 1..Len(data) |-> ClaimLine(a, data[i])])

\* The text a finished list run put out: printed, or written to args.output.
Rendered == IF stdout # <<>> THEN stdout[1] ELSE files[args.output]

C8_Slugify ==
    pc = "slugified" =>
        /\ Len(sOut) = Len(sIn)
        /\ \A i \in 1..Len(sIn) :
               sOut[i] = IF sIn[i] \in ClaimChars THEN "_" ELSE sIn[i]
        /\ \A i \in 1..Len(sOut) : sOut[i] \notin ClaimChars
        /\ slugify(sOut) = sOut

C8_Witness ==
    /\ pc = "slugified"
    /\ \E i \in 1..Len(sIn) : sIn[i] \in ClaimChars
    /\ \E i \in 1..Len(sIn) : sIn[i] \notin ClaimChars /\ sIn[i] # "_"

\* C9: a run in which the image fetch of one card failed has, when it ends,
\* fetched every other resolved card.
C9_FailedFetchSkipsOneCard ==
    (Terminated /\ error.where = "cards_image") =>
        \A j \in 1..Len(cards) :
            j # cidx =>
                \E i \in 1..Len(requests) :
                    requests[i] = ImageRequest(cards[j].uuid, "front")

\* The step opens a file for writing.
OpensFile ==
    /\ Len(fsops') = Len(fsops) + 1
    /\ fsops'[Len(fsops')].op = "open"

\* C10: a step in which cards_image raises changes no file and performs no
\* file operation, and a file is opened for writing only by a step that
\* holds the successful image response of the current card and face.
C10_FetchBeforeOpen ==
    [][ /\ (pc = "cards_image" /\ pc' = "crashed")
            => (files' = files /\ fsops' = fsops)
        /\ OpensFile
            => /\ result.status >= 200 /\ result.status < 300
               /\ result.uuid = cards[cidx].uuid
               /\ result.face = face ]_vars

C10_Witness ==
    /\ pc = "crashed"
    /\ error.where = "cards_image"
    /\ Filename(cards[cidx], face) \in DOMAIN files
    /\ files[Filename(cards[cidx], face)] # <<>>
    /\ \E i \in 1..Len(fsops) : fsops[i].op = "write"

====
